---------------------------- MODULE Spec2Model ----------------------------
(***************************************************************************)
(* Model of fast-client/src/lib.rs: the Delta Exchange REST client's       *)
(* request signing (DeltaNativeClient::sign) and the Binance book-ticker   *)
(* listener's reconnect / receive / dispatch loop (BinanceListener::start).*)
(*                                                                         *)
(* Strings are sequences of one-character strings, so that concatenation,  *)
(* replacement and parsing are computed and not assumed.                   *)
(***************************************************************************)
EXTENDS Integers, Sequences, FiniteSets, TLC

\* ------------------------------------------------------------------ bounds
\* Frames one listener loop reads in a run of Spec.
MaxFrames == 3
\* Connection attempts one listener loop starts in a run of Spec.
MaxAttempts == 3
\* Frames one listener loop reads in a run of SpecDecode (every frame shape).
MaxDecodeFrames == 1
\* Connection attempts one listener loop starts in a run of SpecDecode.
MaxDecodeAttempts == 1
\* start calls made on one listener in a run of SpecMulti.
MaxStarts == 2
\* REST calls made on one client in a run of SpecRest.
MaxCalls == 1

\* --------------------------------------------------------- program constants
\* sleep(Duration::from_secs(5)), lib.rs line 254.
BACKOFF_SECS == 5

\* ------------------------------------------------------------------ strings
Min(a, b) == IF a < b THEN a ELSE b

Digits == <<"0", "1", "2", "3", "4", "5", "6", "7", "8", "9">>

IsDigit(c) == \E i \in 1..10 : Digits[i] = c

DigitVal(c) == (CHOOSE i \in 1..10 : Digits[i] = c) - 1

\* s[i..] starts with pat
StartsWithAt(s, i, pat) ==
    /\ i + Len(pat) - 1 <= Len(s)
    /\ \A k \in 1..Len(pat) : s[i + k - 1] = pat[k]

\* str::replace(from, ""): every non-overlapping match of `from`, found left
\* to right, is removed; all other characters are kept in order.
RECURSIVE RemoveAllFrom(_, _, _)
RemoveAllFrom(s, i, from) ==
    IF i > Len(s) THEN <<>>
    ELSE IF Len(from) > 0 /\ StartsWithAt(s, i, from)
         THEN RemoveAllFrom(s, i + Len(from), from)
         ELSE <<s[i]>> \o RemoveAllFrom(s, i + 1, from)

USDT == <<"U", "S", "D", "T">>

\* data.s.replace("USDT", "")
asset_name(s) == RemoveAllFrom(s, 1, USDT)

\* ------------------------------------------------------------- f64 parsing
\* An f64 is modelled exactly as a count of hundredths (the numeric strings of
\* the model carry at most two fractional digits).  Err is a failed parse.
ParseErr == [ok |-> FALSE, v |-> 0]

ParseOk(v) == [ok |-> TRUE, v |-> v]

RECURSIVE DigitsVal(_, _, _)
\* value of the digit string s[i..j] (0 for the empty range)
DigitsVal(s, i, j) ==
    IF i > j THEN 0 ELSE DigitsVal(s, i, j - 1) * 10 + DigitVal(s[j])

AllDigits(s, i, j) == \A k \in i..j : IsDigit(s[k])

\* position of the first "." in s[i..], or Len(s)+1
DotPos(s, i) ==
    IF \E k \in i..Len(s) : s[k] = "."
    THEN CHOOSE k \in i..Len(s) : s[k] = "." /\ \A m \in i..(k - 1) : s[m] # "."
    ELSE Len(s) + 1

\* str::parse::<f64>() on the decimal grammar  [+-]? digits* ( "." digits* )?
\* with at least one digit; anything else is an error.
parse_f64(s) ==
    LET start == IF Len(s) > 0 /\ s[1] \in {"+", "-"} THEN 2 ELSE 1
        neg   == Len(s) > 0 /\ s[1] = "-"
        dot   == DotPos(s, start)
        nInt  == dot - start
        nFrac == IF dot > Len(s) THEN 0 ELSE Len(s) - dot
        int   == DigitsVal(s, start, dot - 1)
        frac  == DigitsVal(s, dot + 1, Len(s))
        mag   == int * 100 + (IF nFrac = 0 THEN 0
                              ELSE IF nFrac = 1 THEN frac * 10 ELSE frac)
    IN  IF /\ nInt + nFrac >= 1
           /\ nFrac <= 2
           /\ AllDigits(s, start, dot - 1)
           /\ AllDigits(s, dot + 1, Len(s))
        THEN ParseOk(IF neg THEN 0 - mag ELSE mag)
        ELSE ParseErr

\* Result<f64, _>::unwrap_or(0.0)
unwrap_or_zero(r) == IF r.ok THEN r.v ELSE 0

\* ------------------------------------------------------------------- frames
\* fast_websocket_client::OpCode
OpCodes == {"Text", "Binary", "Ping", "Pong", "Close", "Continuation"}

BTCUSDT == <<"B", "T", "C", "U", "S", "D", "T">>

ETHUSDT == <<"E", "T", "H", "U", "S", "D", "T">>

\* Numeric strings a venue message may carry: two that parse, one that does not.
NumStrs == { <<"0", ".", "5">>, <<"1", "2">>, <<"1", "x">> }

\* Wire symbols: with the quote suffix, without it, and with it not at the end.
Symbols == { BTCUSDT, ETHUSDT, <<"B", "T", "C">>, <<"U", "S", "D", "T", "B">> }

\* A frame payload as serde sees it: not JSON at all (wellformed = FALSE); a
\* JSON object without "data" (hasData = FALSE); one whose "data" lacks a
\* required string field (complete = FALSE); or the full book-ticker shape.
Payload(w, h, c, s, b, B, a, A) ==
    [wellformed |-> w, hasData |-> h, complete |-> c,
     s |-> s, b |-> b, B |-> B, a |-> a, A |-> A]

Garbage == Payload(FALSE, FALSE, FALSE, <<>>, <<>>, <<>>, <<>>, <<>>)

NoData == Payload(TRUE, FALSE, FALSE, <<>>, <<>>, <<>>, <<>>, <<>>)

Incomplete == Payload(TRUE, TRUE, FALSE, BTCUSDT, <<"1", "2">>, <<>>, <<>>, <<>>)

Ticker(s, b, B, a, A) == Payload(TRUE, TRUE, TRUE, s, b, B, a, A)

Frame(op, p) == [opcode |-> op, payload |-> p]

\* Every frame shape: each non-text opcode, and every text payload.
AllFrames ==
    { Frame(op, Garbage) : op \in OpCodes \ {"Text"} }
    \cup { Frame("Binary", Ticker(BTCUSDT, <<"1", "2">>, <<"0", ".", "5">>,
                                   <<"1", "2">>, <<"0", ".", "5">>)) }
    \cup { Frame("Text", Garbage), Frame("Text", NoData), Frame("Text", Incomplete) }
    \cup { Frame("Text", Ticker(BTCUSDT, b, B, a, A)) :
             b \in NumStrs, B \in NumStrs, a \in NumStrs, A \in NumStrs }
    \cup { Frame("Text", Ticker(s, <<"1", "2">>, <<"0", ".", "5">>,
                                 <<"1", "2">>, <<"0", ".", "5">>)) : s \in Symbols }

\* A ticker message and a body that does not decode.
TwoFrames ==
    { Frame("Text", Garbage),
      Frame("Text", Ticker(BTCUSDT, <<"0", ".", "5">>, <<"1", "2">>,
                           <<"1", "2">>, <<"0", ".", "5">>)) }

\* One frame of each kind.
LoopFrames ==
    { Frame("Ping", Garbage), Frame("Binary", NoData),
      Frame("Text", Garbage), Frame("Text", NoData), Frame("Text", Incomplete),
      Frame("Text", Ticker(BTCUSDT, <<"0", ".", "5">>, <<"1", "2">>,
                           <<"1", "2">>, <<"0", ".", "5">>)),
      Frame("Text", Ticker(ETHUSDT, <<"1", "x">>, <<"1", "2">>,
                           <<"0", ".", "5">>, <<"1", "x">>)) }

\* ------------------------------------------------------------------- decode
\* Mutant of from_slice: a body that cannot be decoded is taken as a message
\* with default (empty) fields instead of being skipped.
from_slice_lenient(p) ==
    IF p.wellformed /\ ~p.hasData
    THEN [ok |-> TRUE, some |-> FALSE, data |-> Garbage]
    ELSE [ok |-> TRUE, some |-> TRUE, data |-> p]

\* simd_json::from_slice::<BinanceMsg>(&mut payload): Err for a body that is
\* not JSON or whose "data" object lacks a required field; Ok(data: None)
\* when "data" is absent; Ok(data: Some(..)) otherwise.
from_slice(p) ==
    IF ~p.wellformed THEN [ok |-> FALSE, some |-> FALSE, data |-> Garbage]
    ELSE IF ~p.hasData THEN [ok |-> TRUE, some |-> FALSE, data |-> Garbage]
    ELSE IF ~p.complete THEN [ok |-> FALSE, some |-> FALSE, data |-> Garbage]
    ELSE [ok |-> TRUE, some |-> TRUE, data |-> p]

\* DepthUpdate { s: asset_name, bb, bq, ba, aq }, lines 225-235
DepthUpdate(data) ==
    [s  |-> asset_name(data.s),
     bb |-> unwrap_or_zero(parse_f64(data.b)),
     bq |-> unwrap_or_zero(parse_f64(data.B)),
     ba |-> unwrap_or_zero(parse_f64(data.a)),
     aq |-> unwrap_or_zero(parse_f64(data.A))]

\* Mutant of on_frame: a message without `data` is dispatched as an update of
\* default values.
on_frame_default_data(frame) ==
    IF frame.opcode = "Text"
    THEN LET parsed == from_slice(frame.payload)
         IN  IF parsed.ok
             THEN IF parsed.some THEN << DepthUpdate(parsed.data) >>
                  ELSE << DepthUpdate(Garbage) >>
             ELSE <<>>
    ELSE <<>>

\* Mutant of on_frame: the update is dropped when one of its numeric fields
\* does not parse.
on_frame_strict(frame) ==
    IF frame.opcode = "Text"
    THEN LET parsed == from_slice(frame.payload)
         IN  IF parsed.ok /\ parsed.some
             THEN IF /\ parse_f64(parsed.data.b).ok /\ parse_f64(parsed.data.B).ok
                     /\ parse_f64(parsed.data.a).ok /\ parse_f64(parsed.data.A).ok
                  THEN << DepthUpdate(parsed.data) >>
                  ELSE <<>>
             ELSE <<>>
    ELSE <<>>

\* Mutant of on_frame: the opcode is not looked at.
on_frame_any_opcode(frame) ==
    LET parsed == from_slice(frame.payload)
    IN  IF parsed.ok
        THEN IF parsed.some THEN << DepthUpdate(parsed.data) >> ELSE <<>>
        ELSE <<>>

\* The Ok(frame) arm of the receive loop, lines 218-242: the updates handed
\* to callback.call while handling one frame, in call order.
on_frame(frame) ==
    IF frame.opcode = "Text"
    THEN LET parsed == from_slice(frame.payload)
         IN  IF parsed.ok
             THEN IF parsed.some THEN << DepthUpdate(parsed.data) >> ELSE <<>>
             ELSE <<>>
    ELSE <<>>

\* --------------------------------------------------------------- signing
\* str::as_bytes on the ASCII characters the requests of the model use.
AsciiChars ==
    <<"\"", ",", "/", "0", "1", "2", "7", ":", "=", "?", "E", "G", "O", "P", "S", "T",
      "a", "b", "c", "d", "e", "g", "i", "k", "l", "m", "n", "o", "p", "r", "s", "t",
      "u", "v", "w", "{", "}">>

AsciiCodes ==
    <<34, 44, 47, 48, 49, 50, 55, 58, 61, 63, 69, 71, 79, 80, 83, 84,
      97, 98, 99, 100, 101, 103, 105, 107, 108, 109, 110, 111, 112, 114, 115, 116,
      117, 118, 119, 123, 125>>

Byte(c) == AsciiCodes[CHOOSE i \in 1..Len(AsciiChars) : AsciiChars[i] = c]

as_bytes(s) == [i \in 1..Len(s) |-> Byte(s[i])]

HexDigits ==
    <<"0", "1", "2", "3", "4", "5", "6", "7", "8", "9", "a", "b", "c", "d", "e", "f">>

\* hex::encode: two lowercase hex digits per byte, high nibble first.
RECURSIVE hex_encode(_)
hex_encode(bytes) ==
    IF bytes = <<>> THEN <<>>
    ELSE <<HexDigits[(Head(bytes) \div 16) + 1], HexDigits[(Head(bytes) % 16) + 1]>>
         \o hex_encode(Tail(bytes))

\* HmacSha256::new_from_slice(key) / update(msg) / finalize(), lines 57-61.
\* The MAC is modelled as an ideal keyed function, one that has no collisions:
\* its tag is an injective byte encoding of the pair (key, message).
HmacSha256(key, msg) == <<Len(key)>> \o key \o msg

\* Mutant of signature_data: the query is left out of the string.
signature_data_no_query(method, path, query, body, timestamp) ==
    method \o timestamp \o path \o body

\* Mutant of signature_data: the timestamp is left out of the string.
signature_data_no_timestamp(method, path, query, body, timestamp) ==
    method \o path \o query \o body

\* Mutant of signature_data: the fields in the order of sign's parameters.
signature_data_param_order(method, path, query, body, timestamp) ==
    method \o path \o query \o body \o timestamp

\* format!("{}{}{}{}{}", method, timestamp, path, query, body), line 55
signature_data(method, path, query, body, timestamp) ==
    method \o timestamp \o path \o query \o body

\* DeltaNativeClient::sign, lines 54-63.  new_from_slice accepts a key of any
\* length, so the Err of line 58 is never produced.
sign(secret, method, path, query, body, timestamp) ==
    [ok  |-> TRUE,
     val |-> hex_encode(HmacSha256(as_bytes(secret),
                 as_bytes(signature_data(method, path, query, body, timestamp))))]

GET == <<"G", "E", "T">>

POST == <<"P", "O", "S", "T">>

Methods == { GET, POST }

Timestamps ==
    { <<"1">>, <<"1", "7">>, <<"1", "2">>, <<"1", "0", "0", "0", "0", "0", "0">> }

ORDERS == <<"/", "v", "2", "/", "o", "r", "d", "e", "r", "s">>

BALANCES ==
    <<"/", "v", "2", "/", "w", "a", "l", "l", "e", "t", "/",
      "b", "a", "l", "a", "n", "c", "e", "s">>

Paths == { ORDERS, BALANCES, <<"7", "/", "o">> }

Queries == { <<>>, <<"?", "a", "=", "1">> }

Bodies == { <<>>, <<"{", "}">>, <<"?", "a", "=", "1">> }

Secrets == { <<"s", "e", "c", "r", "e", "t">>, <<"k">> }

SignIn(m, p, q, b, ts) ==
    [called |-> TRUE, method |-> m, path |-> p, query |-> q, body |-> b,
     timestamp |-> ts]

NoSignIn ==
    [called |-> FALSE, method |-> <<>>, path |-> <<>>, query |-> <<>>,
     body |-> <<>>, timestamp |-> <<>>]

NoSignOut == [ok |-> FALSE, val |-> <<>>]

\* -------------------------------------------------------------------- state
VARIABLES
    feed,       \* which frames the remote may send in this run: see Feed
    caps,       \* [frames, attempts, starts]: how far this run is explored
    loop,       \* loop[l]: the l-th spawned listener thread (one per start call)
    queue,      \* queue[l]: the calls queued on the l-th callback, oldest first
    delivered,  \* delivered[l]: frame number of the last call handed to JS
    jsBusy,     \* 0, or the loop whose callback the JS thread is running
    api_key,    \* DeltaNativeClient.api_key
    api_secret, \* DeltaNativeClient.api_secret
    signIn,     \* the arguments of the last sign call of a signing run
    signOut,    \* the result of that sign call
    calls       \* calls[c]: the c-th REST call made on the client

listenerVars == <<feed, caps, loop, queue, delivered, jsBusy>>

restVars == <<api_key, api_secret, signIn, signOut, calls>>

vars ==
    <<feed, caps, loop, queue, delivered, jsBusy,
      api_key, api_secret, signIn, signOut, calls>>

Loops == 1..Len(loop)

\* The frames the remote may send.
Feed ==
    IF feed = "every_shape" THEN AllFrames
    ELSE IF feed = "two_kinds" THEN TwoFrames
    ELSE LoopFrames

\* A thread just spawned by start, lines 202-208, before its first connect.
NewLoop ==
    [pc        |-> "Spawned",
     ret       |-> "Ok",   \* what start returned to the caller who spawned it
     attempts  |-> 0,      \* connect() calls made, line 212
     fails     |-> 0,      \* connect() calls that returned Err
     conn      |-> 0,      \* connect() calls that returned Ok: the connection number
     slept     |-> 0,      \* seconds spent in the current sleep
     gap       |-> 0,      \* seconds slept between the last two connect() calls
     wait      |-> 0,      \* duration of the current sleep
     recv      |-> 0,      \* frames read so far
     lastKind  |-> "none", \* what the loop last did
     lastFrame |-> Frame("Ping", Garbage),
     lastCalls |-> <<>>]

\* Mutant of backoff: the delay grows with the number of attempts.
backoff_growing(attempts) == BACKOFF_SECS * attempts

\* Duration::from_secs(5), line 254: the same for every retry.
backoff(attempts) == BACKOFF_SECS

\* sleep(..).await, line 254, entered from either arm of the match.
Sleeping(r, kind) ==
    [r EXCEPT !.pc = "Backoff", !.slept = 0, !.gap = 0, !.wait = backoff(r.attempts),
              !.lastKind = kind, !.lastCalls = <<>>]

\* Mutant of call: the newest call is served first.
call_lifo(q, item) == <<item>> \o q

\* callback.call(Ok(update), NonBlocking), line 238: the call is appended to
\* the callback's unbounded queue and the loop goes on at once.
call(q, item) == Append(q, item)

RECURSIVE CallAll(_, _, _, _)
CallAll(q, updates, seq, conn) ==
    IF updates = <<>> THEN q
    ELSE CallAll(call(q, [seq |-> seq, conn |-> conn, update |-> Head(updates)]),
                 Tail(updates), seq, conn)

\* ------------------------------------------------------------------ actions
\* Mutant of start: start makes the first connection attempt itself, and so
\* returns only once that attempt is under way.
start_connecting ==
    /\ Len(loop) < caps.starts
    /\ loop' = Append(loop, [NewLoop EXCEPT !.pc = "Connecting", !.attempts = 1,
                                            !.lastKind = "connect"])
    /\ queue' = Append(queue, <<>>)
    /\ delivered' = Append(delivered, 0)
    /\ UNCHANGED <<feed, caps, jsBusy, restVars>>

\* Mutant of start: the listener keeps one loop, which a later start replaces.
start_replacing ==
    /\ Len(loop) < caps.starts
    /\ loop' = <<NewLoop>>
    /\ queue' = << <<>> >>
    /\ delivered' = <<0>>
    /\ jsBusy' = 0
    /\ UNCHANGED <<feed, caps, restVars>>

\* BinanceListener::start, lines 193-260: spawns the thread and returns Ok(()).
start ==
    /\ Len(loop) < caps.starts
    /\ loop' = Append(loop, NewLoop)
    /\ queue' = Append(queue, <<>>)
    /\ delivered' = Append(delivered, 0)
    /\ UNCHANGED <<feed, caps, jsBusy, restVars>>

\* Top of the outer loop, lines 209-212: reached when the thread starts and
\* each time the sleep of line 254 has completed; connect(&url) is called.
connect(l) ==
    /\ \/ loop[l].pc = "Spawned"
       \/ loop[l].pc = "Backoff" /\ loop[l].slept >= loop[l].wait
    /\ loop[l].attempts < caps.attempts
    /\ loop' = [loop EXCEPT ![l] =
                  [@ EXCEPT !.pc = "Connecting", !.attempts = @ + 1,
                            !.gap = loop[l].slept, !.slept = 0,
                            !.lastKind = "connect", !.lastCalls = <<>>]]
    /\ UNCHANGED <<feed, caps, queue, delivered, jsBusy, restVars>>

\* Mutant of connect_failed: the loop gives up at the second failure.
connect_failed_giving_up(l) ==
    /\ loop[l].pc = "Connecting"
    /\ loop' = [loop EXCEPT ![l] =
                  IF loop[l].fails >= 1
                  THEN [@ EXCEPT !.pc = "Stopped", !.fails = @ + 1,
                                 !.lastKind = "connect_err", !.lastCalls = <<>>]
                  ELSE Sleeping([@ EXCEPT !.fails = @ + 1], "connect_err")]
    /\ UNCHANGED <<feed, caps, queue, delivered, jsBusy, restVars>>

\* connect returned Err, lines 250-254.
connect_failed(l) ==
    /\ loop[l].pc = "Connecting"
    /\ loop' = [loop EXCEPT ![l] =
                  Sleeping([@ EXCEPT !.fails = @ + 1], "connect_err")]
    /\ UNCHANGED <<feed, caps, queue, delivered, jsBusy, restVars>>

\* connect returned Ok(client), lines 213-217.
connect_ok(l) ==
    /\ loop[l].pc = "Connecting"
    /\ loop' = [loop EXCEPT ![l] =
                  [@ EXCEPT !.pc = "Streaming", !.conn = @ + 1,
                            !.lastKind = "connect_ok", !.lastCalls = <<>>]]
    /\ UNCHANGED <<feed, caps, queue, delivered, jsBusy, restVars>>

\* Mutant of receive_frame: the loop waits for the callbacks it dispatched to
\* finish before it reads the next frame.
receive_frame_awaiting(l, frame) ==
    /\ loop[l].pc = "Streaming"
    /\ loop[l].recv < caps.frames
    /\ queue[l] = <<>>
    /\ jsBusy # l
    /\ LET updates == on_frame(frame)
           n == loop[l].recv + 1
       IN  /\ loop' = [loop EXCEPT ![l] =
                         [@ EXCEPT !.recv = n, !.lastKind = "frame",
                                   !.lastFrame = frame, !.lastCalls = updates]]
           /\ queue' = [queue EXCEPT ![l] = CallAll(@, updates, n, loop[l].conn)]
    /\ UNCHANGED <<feed, caps, delivered, jsBusy, restVars>>

\* Mutant of receive_frame: the callback is released with the first
\* connection, so that frames of a later connection are read and dropped.
receive_frame_callback_released(l, frame) ==
    /\ loop[l].pc = "Streaming"
    /\ loop[l].recv < caps.frames
    /\ LET updates == IF loop[l].conn = 1 THEN on_frame(frame) ELSE <<>>
           n == loop[l].recv + 1
       IN  /\ loop' = [loop EXCEPT ![l] =
                         [@ EXCEPT !.recv = n, !.lastKind = "frame",
                                   !.lastFrame = frame, !.lastCalls = updates]]
           /\ queue' = [queue EXCEPT ![l] = CallAll(@, updates, n, loop[l].conn)]
    /\ UNCHANGED <<feed, caps, delivered, jsBusy, restVars>>

\* receive_frame returned Ok(frame), lines 217-242.
receive_frame(l, frame) ==
    /\ loop[l].pc = "Streaming"
    /\ loop[l].recv < caps.frames
    /\ LET updates == on_frame(frame)
           n == loop[l].recv + 1
       IN  /\ loop' = [loop EXCEPT ![l] =
                         [@ EXCEPT !.recv = n, !.lastKind = "frame",
                                   !.lastFrame = frame, !.lastCalls = updates]]
           /\ queue' = [queue EXCEPT ![l] = CallAll(@, updates, n, loop[l].conn)]
    /\ UNCHANGED <<feed, caps, delivered, jsBusy, restVars>>

\* Mutant of frame_error: the error is logged without leaving the receive loop.
frame_error_continue(l) ==
    /\ loop[l].pc = "Streaming"
    /\ loop' = [loop EXCEPT ![l] = [@ EXCEPT !.lastKind = "frame_err",
                                             !.lastCalls = <<>>]]
    /\ UNCHANGED <<feed, caps, queue, delivered, jsBusy, restVars>>

\* receive_frame returned Err, lines 243-246, then line 254.
frame_error(l) ==
    /\ loop[l].pc = "Streaming"
    /\ loop' = [loop EXCEPT ![l] = Sleeping(@, "frame_err")]
    /\ UNCHANGED <<feed, caps, queue, delivered, jsBusy, restVars>>

\* One second passes for every sleeping thread; tokio completes a sleep no
\* earlier than its deadline.
Elapsed(r) ==
    [r EXCEPT !.slept = IF r.pc = "Backoff" THEN Min(@ + 1, r.wait) ELSE @]

Tick ==
    /\ loop' = [l \in Loops |-> Elapsed(loop[l])]
    /\ loop' # loop
    /\ UNCHANGED <<feed, caps, queue, delivered, jsBusy, restVars>>

\* The JS thread takes the oldest queued call of a callback and runs it.
callback_begin(l) ==
    /\ jsBusy = 0
    /\ queue[l] # <<>>
    /\ jsBusy' = l
    /\ delivered' = [delivered EXCEPT ![l] = Head(queue[l]).seq]
    /\ queue' = [queue EXCEPT ![l] = Tail(@)]
    /\ UNCHANGED <<feed, caps, loop, restVars>>

\* The callback returns (it need not: nothing forces this step).
callback_end ==
    /\ jsBusy # 0
    /\ jsBusy' = 0
    /\ UNCHANGED <<feed, caps, loop, queue, delivered, restVars>>

ListenerNext ==
    \/ start
    \/ \E l \in Loops : connect(l)
    \/ \E l \in Loops : connect_failed(l)
    \/ \E l \in Loops : connect_ok(l)
    \/ \E l \in Loops : \E frame \in Feed : receive_frame(l, frame)
    \/ \E l \in Loops : frame_error(l)
    \/ Tick
    \/ \E l \in Loops : callback_begin(l)
    \/ callback_end

\* After BinanceListener::new(), lines 188-190: no thread yet.
ListenerInitN(frames, maxFrames, maxAttempts, maxStarts) ==
    /\ feed = frames
    /\ caps = [frames |-> maxFrames, attempts |-> maxAttempts, starts |-> maxStarts]
    /\ loop = <<>>
    /\ queue = <<>>
    /\ delivered = <<>>
    /\ jsBusy = 0

\* A listener on which start is called once.
ListenerInit(frames, maxFrames, maxAttempts) ==
    ListenerInitN(frames, maxFrames, maxAttempts, 1)

\* No REST client in the runs of the listener.
RestIdle ==
    /\ api_key = <<>>
    /\ api_secret = <<>>
    /\ calls = <<>>
    /\ signIn = NoSignIn
    /\ signOut = NoSignOut

Init == ListenerInit("each_kind", MaxFrames, MaxAttempts) /\ RestIdle

Next == ListenerNext

Spec == Init /\ [][Next]_vars

InitDecode ==
    ListenerInit("every_shape", MaxDecodeFrames, MaxDecodeAttempts) /\ RestIdle

SpecDecode == InitDecode /\ [][Next]_vars

\* A listener on which start is called several times.
InitMulti ==
    ListenerInitN("two_kinds", 1, 1, MaxStarts)
    /\ RestIdle

SpecMulti == InitMulti /\ [][Next]_vars

\* ------------------------------------------------------- the signing runs
\* self.sign(method, path, query, body, timestamp) on a constructed client.
sign_call(m, p, q, b, ts) ==
    /\ signIn' = SignIn(m, p, q, b, ts)
    /\ signOut' = sign(api_secret, m, p, q, b, ts)
    /\ UNCHANGED <<api_key, api_secret, calls, listenerVars>>

SignNext ==
    \E m \in Methods, p \in Paths, q \in Queries, b \in Bodies, ts \in Timestamps :
        sign_call(m, p, q, b, ts)

\* After DeltaNativeClient::new(api_key, api_secret, base_url), lines 33-52.
InitSign ==
    /\ ListenerInit("each_kind", 0, 0)
    /\ api_key = <<>>
    /\ api_secret \in Secrets
    /\ signIn = NoSignIn
    /\ signOut = NoSignOut
    /\ calls = <<>>

SpecSign == InitSign /\ [][SignNext]_vars

\* ===================================================================== REST
\* ---------------------------------------------------------------- JSON
\* serde_json::Value as far as the requests and responses of the model need
\* it: null, an unsigned number, or an object whose members are kept sorted
\* by key (serde_json's Map is a BTreeMap).
Null == [t |-> "null", n |-> 0, m |-> <<>>]

Num(n) == [t |-> "num", n |-> n, m |-> <<>>]

Obj(m) == [t |-> "obj", n |-> 0, m |-> m]

\* u64::to_string, lines 71-75: decimal digits, most significant first.
RECURSIVE u64_to_string(_)
u64_to_string(n) ==
    IF n < 10 THEN <<Digits[n + 1]>>
    ELSE u64_to_string(n \div 10) \o <<Digits[(n % 10) + 1]>>

NULL_LIT == <<"n", "u", "l", "l">>

\* Value::to_string, line 69: the compact serialisation.
RECURSIVE to_string(_), members_to_string(_)
to_string(v) ==
    IF v.t = "null" THEN NULL_LIT
    ELSE IF v.t = "num" THEN u64_to_string(v.n)
    ELSE <<"{">> \o members_to_string(v.m) \o <<"}">>

members_to_string(m) ==
    IF Len(m) = 0 THEN <<>>
    ELSE <<"\"">> \o m[1][1] \o <<"\"", ":">> \o to_string(m[1][2])
         \o (IF Len(m) > 1 THEN <<",">> \o members_to_string(Tail(m)) ELSE <<>>)

\* Ord for String: byte-wise lexicographic.
RECURSIVE KeyLess(_, _)
KeyLess(x, y) ==
    IF Len(y) = 0 THEN FALSE
    ELSE IF Len(x) = 0 THEN TRUE
    ELSE IF Byte(x[1]) # Byte(y[1]) THEN Byte(x[1]) < Byte(y[1])
    ELSE KeyLess(Tail(x), Tail(y))

\* Map::insert: a key already present takes the new value.
RECURSIVE map_insert(_, _, _)
map_insert(m, k, v) ==
    IF Len(m) = 0 THEN << <<k, v>> >>
    ELSE IF m[1][1] = k THEN << <<k, v>> >> \o Tail(m)
    ELSE IF KeyLess(k, m[1][1]) THEN << <<k, v>> >> \o m
    ELSE << m[1] >> \o map_insert(Tail(m), k, v)

JsonErr == [ok |-> FALSE, v |-> Null, next |-> 0]

JsonOk(v, next) == [ok |-> TRUE, v |-> v, next |-> next]

RECURSIVE skip_ws(_, _)
skip_ws(s, i) == IF i <= Len(s) /\ s[i] = " " THEN skip_ws(s, i + 1) ELSE i

RECURSIVE digits_end(_, _)
digits_end(s, i) == IF i <= Len(s) /\ IsDigit(s[i]) THEN digits_end(s, i + 1) ELSE i

\* position of the first '"' in s[i..], or Len(s)+1
RECURSIVE quote_end(_, _)
quote_end(s, i) == IF i <= Len(s) /\ s[i] # "\"" THEN quote_end(s, i + 1) ELSE i

\* serde_json's parser on the grammar
\*   value  ::= ws ( "null" | "0" | [1-9][0-9]* | "{" ws "}" | "{" member ("," member)* "}" )
\*   member ::= ws '"' chars '"' ws ":" value ws
\* returning the value and the position after it.
RECURSIVE parse_value(_, _), parse_members(_, _, _)
parse_value(s, i0) ==
    LET i == skip_ws(s, i0)
    IN  IF i > Len(s) THEN JsonErr
        ELSE IF StartsWithAt(s, i, NULL_LIT) THEN JsonOk(Null, i + 4)
        ELSE IF IsDigit(s[i])
             THEN LET j == IF s[i] = "0" THEN i + 1 ELSE digits_end(s, i)
                  IN  JsonOk(Num(DigitsVal(s, i, j - 1)), j)
        ELSE IF s[i] = "{"
             THEN LET j == skip_ws(s, i + 1)
                  IN  IF j <= Len(s) /\ s[j] = "}" THEN JsonOk(Obj(<<>>), j + 1)
                      ELSE parse_members(s, j, <<>>)
        ELSE JsonErr

parse_members(s, i0, m) ==
    LET i == skip_ws(s, i0)
    IN  IF ~(i <= Len(s) /\ s[i] = "\"") THEN JsonErr
        ELSE LET q == quote_end(s, i + 1)
                 c == skip_ws(s, q + 1)
             IN  IF q > Len(s) THEN JsonErr
                 ELSE IF ~(c <= Len(s) /\ s[c] = ":") THEN JsonErr
                 ELSE LET r  == parse_value(s, c + 1)
                          e  == skip_ws(s, r.next)
                          m2 == map_insert(m, SubSeq(s, i + 1, q - 1), r.v)
                      IN  IF ~r.ok THEN JsonErr
                          ELSE IF e > Len(s) THEN JsonErr
                          ELSE IF s[e] = "}" THEN JsonOk(Obj(m2), e + 1)
                          ELSE IF s[e] = "," THEN parse_members(s, e + 1, m2)
                          ELSE JsonErr

\* res.json::<Value>() once the whole body has been received, lines 90-91:
\* one value, then nothing but whitespace.
json(body) ==
    LET r == parse_value(body, 1)
    IN  IF r.ok /\ skip_ws(body, r.next) = Len(body) + 1
        THEN [ok |-> TRUE, v |-> r.v]
        ELSE [ok |-> FALSE, v |-> Null]

\* ------------------------------------------------------------ the client
\* "https://api.india.delta.exchange", line 34.
DEFAULT_BASE_URL ==
    <<"h", "t", "t", "p", "s", ":", "/", "/", "a", "p", "i", ".",
      "i", "n", "d", "i", "a", ".", "d", "e", "l", "t", "a", ".",
      "e", "x", "c", "h", "a", "n", "g", "e">>

POSITIONS ==
    <<"/", "v", "2", "/", "p", "o", "s", "i", "t", "i", "o", "n", "s", "/",
      "m", "a", "r", "g", "i", "n", "e", "d">>

APPLICATION_JSON ==
    <<"a", "p", "p", "l", "i", "c", "a", "t", "i", "o", "n", "/",
      "j", "s", "o", "n">>

API_KEY == <<"k", "e", "y">>

\* Seconds since the epoch that SystemTime::now() may give.
Clock == { 7, 12, 1700 }

\* The order payloads the application passes to place_order.
OrderBodies ==
    { Obj(<<>>),
      Obj(<< << <<"a">>, Num(1) >> >>),
      Obj(<< << <<"a">>, Num(1) >>, << <<"b">>, Null >> >>) }

\* HTTP statuses of the responses.
Statuses == { 200, 400, 500 }

\* Complete response bodies: two that are JSON, two that are not.
RespBodies ==
    { <<"{", "\"", "a", "\"", ":", "1", "}">>,
      <<"{", " ", "\"", "b", "\"", ":", "2", ",", "\"", "a", "\"", ":", "1", "}">>,
      <<>>,
      <<"{", "\"", "a", "\"", ":", "1">> }

REQUEST_FAILED == "Request failed: "

PARSE_FAILED == "Parse failed: "

INVALID_API_SECRET == "Invalid API Secret"

\* napi::Result<Value>
Pending == [kind |-> "Pending", status |-> "", msg |-> "", value |-> Null]

Ok(value) == [kind |-> "Ok", status |-> "", msg |-> "", value |-> value]

\* Error::new(Status::GenericFailure, msg)
Err(msg) == [kind |-> "Err", status |-> "GenericFailure", msg |-> msg, value |-> Null]

\* The builder chain of lines 79-85: the request handed to send().
Request(verb, path, timestamp, signature, body) ==
    [verb    |-> verb,
     url     |-> DEFAULT_BASE_URL \o path,
     headers |-> << <<"api-key", api_key>>,
                    <<"timestamp", timestamp>>,
                    <<"signature", signature>>,
                    <<"Content-Type", APPLICATION_JSON>> >>,
     body    |-> body]

\* One call of a REST method, from its first line to the send() it awaits.
Call(op, signed, signature, sent, result) ==
    [op          |-> op,
     pc          |-> IF result.kind = "Pending" THEN "Sending" ELSE "Done",
     signed      |-> signed,      \* the arguments given to sign
     signature   |-> signature,   \* what sign returned
     sent        |-> sent,        \* the requests handed to send(), in order
     resp_status |-> 0,           \* status of the response, once it has arrived
     resp_body   |-> <<>>,        \* its body, once received in full
     cause       |-> "none",      \* what made the call fail: "transport", "decode"
     result      |-> result]

Calls == 1..Len(calls)

\* Mutant of place_order: the signature is computed over an empty body.
place_order_signing_no_body(body, now) ==
    /\ Len(calls) < MaxCalls
    /\ LET body_str  == to_string(body)
           timestamp == u64_to_string(now)
           signature == sign(api_secret, POST, ORDERS, <<>>, <<>>, timestamp)
       IN  calls' = Append(calls,
               Call("place_order",
                    SignIn(POST, ORDERS, <<>>, <<>>, timestamp), signature,
                    << Request(POST, ORDERS, timestamp, signature.val, body_str) >>,
                    Pending))
    /\ UNCHANGED <<api_key, api_secret, signIn, signOut, listenerVars>>

\* DeltaNativeClient::place_order, lines 66-88, up to the await of send().
place_order(body, now) ==
    /\ Len(calls) < MaxCalls
    /\ LET body_str  == to_string(body)
           timestamp == u64_to_string(now)
           signature == sign(api_secret, POST, ORDERS, <<>>, body_str, timestamp)
       IN  calls' = Append(calls,
               IF signature.ok
               THEN Call("place_order",
                         SignIn(POST, ORDERS, <<>>, body_str, timestamp), signature,
                         << Request(POST, ORDERS, timestamp, signature.val, body_str) >>,
                         Pending)
               ELSE Call("place_order",
                         SignIn(POST, ORDERS, <<>>, body_str, timestamp), signature,
                         <<>>, Err(INVALID_API_SECRET)))
    /\ UNCHANGED <<api_key, api_secret, signIn, signOut, listenerVars>>

\* DeltaNativeClient::get_wallet_balance, lines 97-117.
get_wallet_balance(now) ==
    /\ Len(calls) < MaxCalls
    /\ LET timestamp == u64_to_string(now)
           signature == sign(api_secret, GET, BALANCES, <<>>, <<>>, timestamp)
       IN  calls' = Append(calls,
               IF signature.ok
               THEN Call("get_wallet_balance",
                         SignIn(GET, BALANCES, <<>>, <<>>, timestamp), signature,
                         << Request(GET, BALANCES, timestamp, signature.val, <<>>) >>,
                         Pending)
               ELSE Call("get_wallet_balance",
                         SignIn(GET, BALANCES, <<>>, <<>>, timestamp), signature,
                         <<>>, Err(INVALID_API_SECRET)))
    /\ UNCHANGED <<api_key, api_secret, signIn, signOut, listenerVars>>

\* Mutant of get_positions: the request is sent without a call of sign, with
\* an empty signature header.
get_positions_unsigned(now) ==
    /\ Len(calls) < MaxCalls
    /\ LET timestamp == u64_to_string(now)
       IN  calls' = Append(calls,
               Call("get_positions", NoSignIn, NoSignOut,
                    << Request(GET, POSITIONS, timestamp, <<>>, <<>>) >>,
                    Pending))
    /\ UNCHANGED <<api_key, api_secret, signIn, signOut, listenerVars>>

\* DeltaNativeClient::get_positions, lines 126-146.
get_positions(now) ==
    /\ Len(calls) < MaxCalls
    /\ LET timestamp == u64_to_string(now)
           signature == sign(api_secret, GET, POSITIONS, <<>>, <<>>, timestamp)
       IN  calls' = Append(calls,
               IF signature.ok
               THEN Call("get_positions",
                         SignIn(GET, POSITIONS, <<>>, <<>>, timestamp), signature,
                         << Request(GET, POSITIONS, timestamp, signature.val, <<>>) >>,
                         Pending)
               ELSE Call("get_positions",
                         SignIn(GET, POSITIONS, <<>>, <<>>, timestamp), signature,
                         <<>>, Err(INVALID_API_SECRET)))
    /\ UNCHANGED <<api_key, api_secret, signIn, signOut, listenerVars>>

\* send().await returned Err (no connection, timeout, ...), lines 86-88 (and
\* 115-117, 144-146): the call ends with "Request failed: ...".
send_failed(c) ==
    /\ calls[c].pc = "Sending"
    /\ calls' = [calls EXCEPT ![c] =
                   [@ EXCEPT !.pc = "Done", !.cause = "transport",
                             !.result = Err(REQUEST_FAILED)]]
    /\ UNCHANGED <<api_key, api_secret, signIn, signOut, listenerVars>>

\* send().await returned Ok(res): the status line and headers of a response
\* have arrived, whatever the status; there is no error_for_status.
response_arrived(c, status) ==
    /\ calls[c].pc = "Sending"
    /\ calls' = [calls EXCEPT ![c] =
                   [@ EXCEPT !.pc = "Reading", !.resp_status = status]]
    /\ UNCHANGED <<api_key, api_secret, signIn, signOut, listenerVars>>

\* res.json().await failed while the body was still being received (the
\* connection broke, or the timeout of line 41, which also covers the body,
\* expired), lines 90-91: the call ends with "Parse failed: ...".
body_failed(c) ==
    /\ calls[c].pc = "Reading"
    /\ calls' = [calls EXCEPT ![c] =
                   [@ EXCEPT !.pc = "Done", !.cause = "transport",
                             !.result = Err(PARSE_FAILED)]]
    /\ UNCHANGED <<api_key, api_secret, signIn, signOut, listenerVars>>

\* Mutant of body_read: a response with an error status is turned into an
\* error (error_for_status).
body_read_error_for_status(c, body) ==
    /\ calls[c].pc = "Reading"
    /\ LET parsed == json(body)
       IN  calls' = [calls EXCEPT ![c] =
                       IF calls[c].resp_status >= 400
                       THEN [@ EXCEPT !.pc = "Done", !.resp_body = body,
                                      !.cause = "status",
                                      !.result = Err(REQUEST_FAILED)]
                       ELSE IF parsed.ok
                       THEN [@ EXCEPT !.pc = "Done", !.resp_body = body,
                                      !.result = Ok(parsed.v)]
                       ELSE [@ EXCEPT !.pc = "Done", !.resp_body = body,
                                      !.cause = "decode",
                                      !.result = Err(PARSE_FAILED)]]
    /\ UNCHANGED <<api_key, api_secret, signIn, signOut, listenerVars>>

\* res.json().await received the whole body and parsed it, lines 90-93 (and
\* 119-122, 148-151).
body_read(c, body) ==
    /\ calls[c].pc = "Reading"
    /\ LET parsed == json(body)
       IN  calls' = [calls EXCEPT ![c] =
                       IF parsed.ok
                       THEN [@ EXCEPT !.pc = "Done", !.resp_body = body,
                                      !.result = Ok(parsed.v)]
                       ELSE [@ EXCEPT !.pc = "Done", !.resp_body = body,
                                      !.cause = "decode",
                                      !.result = Err(PARSE_FAILED)]]
    /\ UNCHANGED <<api_key, api_secret, signIn, signOut, listenerVars>>

RestNext ==
    \/ \E body \in OrderBodies, now \in Clock : place_order(body, now)
    \/ \E now \in Clock : get_wallet_balance(now)
    \/ \E now \in Clock : get_positions(now)
    \/ \E c \in Calls : send_failed(c)
    \/ \E c \in Calls : \E status \in Statuses : response_arrived(c, status)
    \/ \E c \in Calls : body_failed(c)
    \/ \E c \in Calls : \E body \in RespBodies : body_read(c, body)

\* After DeltaNativeClient::new(api_key, api_secret, None), lines 33-52.
InitRest ==
    /\ ListenerInit("each_kind", 0, 0)
    /\ api_key = API_KEY
    /\ api_secret \in Secrets
    /\ signIn = NoSignIn
    /\ signOut = NoSignOut
    /\ calls = <<>>

SpecRest == InitRest /\ [][RestNext]_vars

\* =================================================================== claims
\* Calls made to the callback of loop l for its n-th frame that are still
\* queued, plus the one handed to the JS thread if it is that frame's.
CallsFor(l, n) ==
    Cardinality({ i \in 1..Len(queue[l]) : queue[l][i].seq = n })
    + (IF n > 0 /\ delivered[l] = n THEN 1 ELSE 0)

\* Calls dispatched by loop l whose callback has not finished.
Unfinished(l) == Len(queue[l]) + (IF jsBusy = l THEN 1 ELSE 0)

\* The loop can read whatever frame the remote sends next.
CanReadAnyFrame(l) == \A frame \in Feed : ENABLED receive_frame(l, frame)

\* The frame decodes as a book-ticker message with `data` present.
DecodesWithData(frame) ==
    /\ frame.payload.wellformed
    /\ frame.payload.hasData
    /\ frame.payload.complete

\* The frame decodes as a message without `data`.
DecodesWithoutData(frame) ==
    /\ frame.payload.wellformed
    /\ ~frame.payload.hasData

\* The frame's body is malformed or does not have the message's shape.
Undecodable(frame) ==
    \/ ~frame.payload.wellformed
    \/ frame.payload.hasData /\ ~frame.payload.complete

PcStates == {"Spawned", "Connecting", "Streaming", "Backoff"}

\* C1: the reconnect loop never terminates.  A started loop is always at one
\* of its await points (connecting, streaming, sleeping: there is no terminal
\* state), and at each of them its next step is possible whatever failures
\* came before: a pending connect can succeed or fail, a streaming loop can
\* read any next frame or see a read error, a sleep lasts the finite backoff
\* and then a further connection attempt is made.  No count of earlier
\* failures disables any of this (only the exploration bounds of the run do).
C1_NeverTerminates ==
    \A l \in Loops :
        LET r == loop[l] IN
        /\ r.pc \in PcStates
        /\ r.pc = "Spawned" /\ r.attempts < caps.attempts => ENABLED connect(l)
        /\ r.pc = "Connecting" => ENABLED connect_ok(l) /\ ENABLED connect_failed(l)
        /\ r.pc = "Streaming" =>
              /\ ENABLED frame_error(l)
              /\ r.recv < caps.frames => CanReadAnyFrame(l)
        /\ r.pc = "Backoff" =>
              /\ r.wait <= BACKOFF_SECS
              /\ r.slept < r.wait => ENABLED Tick
              /\ r.slept >= r.wait /\ r.attempts < caps.attempts => ENABLED connect(l)

\* C1 witness: after a connect failure, a frame and a frame-read error, the
\* loop is making a further connection attempt.
C1_Witness ==
    \E l \in Loops :
        /\ loop[l].fails >= 1
        /\ loop[l].conn >= 1
        /\ loop[l].recv >= 1
        /\ loop[l].pc = "Connecting"

\* C2: when the connection fails N times and then succeeds, the loop has made
\* exactly N+1 attempts when it enters Streaming; every retry was started
\* after a sleep of at least the fixed 5 seconds; and every backoff, whatever
\* the number of earlier failures, lasts the same 5 seconds.
C2_RetriesThenStreaming ==
    \A l \in Loops :
        LET r == loop[l] IN
        /\ r.pc = "Streaming" /\ r.conn = 1 => r.attempts = r.fails + 1
        /\ r.lastKind = "connect_ok" => r.pc = "Streaming"
        /\ r.pc \in {"Connecting", "Streaming"} /\ r.attempts >= 2 =>
              r.gap >= BACKOFF_SECS
        /\ r.pc = "Backoff" => r.wait = BACKOFF_SECS

\* C2 witness: two failed attempts, then the third succeeds.
C2_Witness ==
    \E l \in Loops :
        /\ loop[l].fails = 2
        /\ loop[l].conn = 1
        /\ loop[l].attempts = 3
        /\ loop[l].pc = "Streaming"
        /\ loop[l].lastKind = "connect_ok"

\* C3: updates reach the callback in the order of their frames.  The calls
\* queued on a callback are in strictly increasing frame order (one call per
\* frame at most, so nothing is batched), all later than the last call handed
\* to the JS thread, and none is from a frame not yet received.
C3_DispatchInOrder ==
    \A l \in Loops :
        /\ \A i \in 1..Len(queue[l]) :
              /\ delivered[l] < queue[l][i].seq
              /\ queue[l][i].seq <= loop[l].recv
              /\ queue[l][i].conn <= loop[l].conn
        /\ \A i \in 1..(Len(queue[l]) - 1) :
              /\ queue[l][i].seq < queue[l][i + 1].seq
              /\ queue[l][i].conn <= queue[l][i + 1].conn

\* C3 witness: one update was delivered, and two more wait in order, the
\* second of them from a frame received after a reconnect.
C3_Witness ==
    \E l \in Loops :
        /\ delivered[l] > 0
        /\ Len(queue[l]) = 2
        /\ queue[l][1].conn < queue[l][2].conn

\* C4: a text frame causes at most one callback invocation, and exactly one
\* if and only if it decodes as a book-ticker message with `data`; a frame
\* that decodes without `data` causes none and leaves the loop Streaming.
C4_OneCallIffData ==
    \A l \in Loops :
        LET r == loop[l] IN
        r.lastKind = "frame" /\ r.lastFrame.opcode = "Text" =>
            /\ CallsFor(l, r.recv) <= 1
            /\ Len(r.lastCalls) = CallsFor(l, r.recv)
            /\ CallsFor(l, r.recv) = 1 <=> DecodesWithData(r.lastFrame)
            /\ DecodesWithoutData(r.lastFrame) =>
                  CallsFor(l, r.recv) = 0 /\ r.pc = "Streaming"

\* C4 witness: the first frame produced its one call (still queued) and the
\* second, a message without `data`, produced none.
C4_Witness ==
    \E l \in Loops :
        /\ loop[l].recv = 2
        /\ loop[l].lastKind = "frame"
        /\ loop[l].lastFrame = Frame("Text", NoData)
        /\ loop[l].pc = "Streaming"
        /\ CallsFor(l, 1) = 1
        /\ CallsFor(l, 2) = 0

\* A step in which loop l reads a frame.
ReadsFrame(l) == loop'[l].recv = loop[l].recv + 1

\* C5: reading a text frame whose body cannot be decoded invokes no callback
\* and leaves the loop where it was: Streaming, on the same connection, with
\* no new connection attempt and no sleep; and a Streaming loop reads the
\* next frame.
C5_UndecodableSkipped ==
    /\ [][\A l \in Loops :
            ReadsFrame(l) /\ loop'[l].lastFrame.opcode = "Text"
                          /\ Undecodable(loop'[l].lastFrame) =>
                /\ queue'[l] = queue[l]
                /\ delivered'[l] = delivered[l]
                /\ loop'[l].pc = "Streaming"
                /\ loop'[l].conn = loop[l].conn
                /\ loop'[l].attempts = loop[l].attempts
                /\ loop'[l].fails = loop[l].fails
                /\ loop'[l].lastCalls = <<>>]_vars
    /\ [](\A l \in Loops :
            loop[l].lastKind = "frame" /\ loop[l].recv < caps.frames =>
                CanReadAnyFrame(l))

\* C5 witness: a malformed text frame was read, nothing was dispatched for it,
\* and the loop is Streaming on its first connection.
C5_Witness ==
    \E l \in Loops :
        /\ loop[l].lastKind = "frame"
        /\ loop[l].lastFrame = Frame("Text", Garbage)
        /\ loop[l].pc = "Streaming"
        /\ loop[l].conn = 1
        /\ loop[l].attempts = 1
        /\ CallsFor(l, loop[l].recv) = 0

\* The value each numeric string of the model stands for, in hundredths, and
\* whether it is a number at all: written out, not computed by parse_f64.
IsNumber(s) == s \in { <<"0", ".", "5">>, <<"1", "2">> }

NumberOf(s) ==
    IF s = <<"0", ".", "5">> THEN 50 ELSE IF s = <<"1", "2">> THEN 1200 ELSE 0

FieldValue(s) == IF IsNumber(s) THEN NumberOf(s) ELSE 0

\* The call made for the last frame of loop l is queued with this update, or
\* has been handed to the JS thread.
LastCallCarries(l, u) ==
    \/ delivered[l] = loop[l].recv
    \/ \E i \in 1..Len(queue[l]) :
          /\ queue[l][i].seq = loop[l].recv
          /\ queue[l][i].update = u

\* C6: a decoded frame produces exactly one callback invocation whichever of
\* its four numeric fields fail to parse; in the update handed over, a field
\* that does not parse is 0.0 and a field that parses has its value.
C6_FieldDefaultsToZero ==
    \A l \in Loops :
        LET r == loop[l]
            d == r.lastFrame.payload
        IN  r.lastKind = "frame" /\ r.lastFrame.opcode = "Text"
                                 /\ DecodesWithData(r.lastFrame) =>
                /\ CallsFor(l, r.recv) = 1
                /\ Len(r.lastCalls) = 1
                /\ r.lastCalls[1].bb = FieldValue(d.b)
                /\ r.lastCalls[1].bq = FieldValue(d.B)
                /\ r.lastCalls[1].ba = FieldValue(d.a)
                /\ r.lastCalls[1].aq = FieldValue(d.A)
                /\ LastCallCarries(l, r.lastCalls[1])

\* C6 witness: of the four fields, b and A do not parse and B and a do; the
\* one update queued carries 0, 12, 0.5 and 0.
C6_Witness ==
    \E l \in Loops :
        /\ loop[l].lastKind = "frame"
        /\ loop[l].lastFrame =
              Frame("Text", Ticker(BTCUSDT, <<"1", "x">>, <<"1", "2">>,
                                   <<"0", ".", "5">>, <<"1", "x">>))
        /\ Len(queue[l]) = 1
        /\ queue[l][1].update.bb = 0
        /\ queue[l][1].update.bq = 1200
        /\ queue[l][1].update.ba = 50
        /\ queue[l][1].update.aq = 0

\* C7: dispatch is fire-and-forget.  Reading a frame appends its calls to the
\* callback's queue and leaves the loop Streaming, however many earlier calls
\* are unfinished; and a Streaming loop can read any next frame while calls
\* are queued or a callback is running, so that an unfinished callback never
\* holds the loop back.
C7_FireAndForget ==
    /\ [][\A l \in Loops :
            ReadsFrame(l) =>
                /\ Len(queue'[l]) = Len(queue[l]) + Len(loop'[l].lastCalls)
                /\ SubSeq(queue'[l], 1, Len(queue[l])) = queue[l]
                /\ loop'[l].pc = "Streaming"
                /\ jsBusy' = jsBusy]_vars
    /\ [](\A l \in Loops :
            loop[l].pc = "Streaming" /\ loop[l].recv < caps.frames
                                     /\ Unfinished(l) > 0 =>
                CanReadAnyFrame(l))

\* C7 witness: the loop read two frames and dispatched both while the
\* callback of neither had finished (one running, one queued).
C7_Witness ==
    \E l \in Loops :
        /\ loop[l].recv = 2
        /\ jsBusy = l
        /\ delivered[l] = 1
        /\ Len(queue[l]) = 1
        /\ loop[l].pc = "Streaming"

\* A step in which the frame read of loop l fails.
FrameReadFails(l) ==
    loop[l].pc = "Streaming" /\ loop'[l].lastKind = "frame_err"

\* C8: a frame-read error ends the connection's receive loop.  The step
\* invokes no callback and reads no frame, and puts the loop in its 5-second
\* sleep; until that sleep is over no frame is read and no connection attempt
\* starts, and the attempt that follows was started after the full backoff.
C8_FrameErrorEndsConnection ==
    /\ [][\A l \in Loops :
            FrameReadFails(l) =>
                /\ queue'[l] = queue[l]
                /\ delivered'[l] = delivered[l]
                /\ loop'[l].recv = loop[l].recv
                /\ loop'[l].lastCalls = <<>>
                /\ loop'[l].pc = "Backoff"
                /\ loop'[l].slept = 0
                /\ loop'[l].wait = BACKOFF_SECS]_vars
    /\ [](\A l \in Loops :
            /\ loop[l].pc = "Backoff" =>
                  /\ \A frame \in Feed : ~ENABLED receive_frame(l, frame)
                  /\ loop[l].slept < BACKOFF_SECS => ~ENABLED connect(l)
            /\ loop[l].pc = "Connecting" /\ loop[l].conn >= 1 =>
                  /\ loop[l].gap >= BACKOFF_SECS
                  /\ \A frame \in Feed : ~ENABLED receive_frame(l, frame))

\* C8 witness: a frame was dispatched, then a read failed; the earlier call
\* is still queued, none was added, and the loop is part-way through its sleep.
C8_Witness ==
    \E l \in Loops :
        /\ loop[l].lastKind = "frame_err"
        /\ loop[l].pc = "Backoff"
        /\ loop[l].slept = 2
        /\ loop[l].recv = 1
        /\ Len(queue[l]) = 1

\* C9: after a frame-read error and a successful reconnect, delivery resumes.
\* On a second or later connection every frame that decodes with `data` is
\* dispatched, once, as the update the decode gives on any connection, and
\* the loop can read any next frame.
C9_ResumesAfterReconnect ==
    \A l \in Loops :
        LET r == loop[l] IN
        r.conn >= 2 =>
            /\ r.pc = "Streaming" /\ r.recv < caps.frames => CanReadAnyFrame(l)
            /\ r.lastKind = "frame" /\ r.lastFrame.opcode = "Text"
                                    /\ DecodesWithData(r.lastFrame) =>
                  /\ CallsFor(l, r.recv) = 1
                  /\ LastCallCarries(l, DepthUpdate(r.lastFrame.payload))
                  /\ \A i \in 1..Len(queue[l]) :
                        queue[l][i].seq = r.recv => queue[l][i].conn = r.conn

\* C9 witness: on the second connection, after a read error on the first, a
\* ticker frame was read and its update has been handed to the JS thread.
C9_Witness ==
    \E l \in Loops :
        /\ loop[l].conn = 2
        /\ loop[l].fails = 0
        /\ loop[l].lastKind = "frame"
        /\ DecodesWithData(loop[l].lastFrame)
        /\ loop[l].lastFrame.opcode = "Text"
        /\ delivered[l] = loop[l].recv
        /\ jsBusy = l

\* The known-good vector: GET, 1000000, /v2/wallet/balances, no query, no body.
VectorString ==
    <<"G", "E", "T", "1", "0", "0", "0", "0", "0", "0">> \o BALANCES

\* C10: sign returns the hex encoding of the MAC, keyed by the bytes of the
\* client's secret, of method, timestamp, path, query and body concatenated
\* in that order with nothing between them; for the known-good vector the
\* string signed is "GET1000000/v2/wallet/balances".
C10_CanonicalString ==
    signIn.called =>
        /\ signOut.ok
        /\ signOut.val =
              hex_encode(HmacSha256(as_bytes(api_secret),
                  as_bytes(signIn.method \o signIn.timestamp \o signIn.path
                           \o signIn.query \o signIn.body)))
        /\ ( /\ signIn.method = GET
             /\ signIn.timestamp = <<"1", "0", "0", "0", "0", "0", "0">>
             /\ signIn.path = BALANCES
             /\ signIn.query = <<>>
             /\ signIn.body = <<>> ) =>
              signOut.val =
                  hex_encode(HmacSha256(as_bytes(api_secret), as_bytes(VectorString)))

\* C10 witness: a call with all five fields non-empty, under the secret
\* "secret", has returned a signature.
C10_Witness ==
    /\ signIn.called
    /\ api_secret = <<"s", "e", "c", "r", "e", "t">>
    /\ signIn.method = POST
    /\ signIn.path = ORDERS
    /\ signIn.query # <<>>
    /\ signIn.body = <<"{", "}">>
    /\ signOut.ok
    /\ Len(signOut.val) > 0

\* Characters put in place of, or next to, a character of an input.
EditChars == {"0", "/", "a"}

\* Every string one character away from s: one character replaced by another,
\* one character removed, or one character inserted.
Edits(s) ==
    ({ [s EXCEPT ![i] = c] : i \in 1..Len(s), c \in EditChars } \ {s})
    \cup { SubSeq(s, 1, i - 1) \o SubSeq(s, i + 1, Len(s)) : i \in 1..Len(s) }
    \cup { SubSeq(s, 1, i) \o <<c>> \o SubSeq(s, i + 1, Len(s)) :
             i \in 0..Len(s), c \in EditChars }

\* The sign arguments one character away from x in exactly one field.
EditedInputs(x) ==
    { [x EXCEPT !.method = e]    : e \in Edits(x.method) }
    \cup { [x EXCEPT !.path = e]      : e \in Edits(x.path) }
    \cup { [x EXCEPT !.query = e]     : e \in Edits(x.query) }
    \cup { [x EXCEPT !.body = e]      : e \in Edits(x.body) }
    \cup { [x EXCEPT !.timestamp = e] : e \in Edits(x.timestamp) }

SignatureOf(x) ==
    sign(api_secret, x.method, x.path, x.query, x.body, x.timestamp)

AllSignInputs ==
    { SignIn(m, p, q, b, ts) :
        m \in Methods, p \in Paths, q \in Queries, b \in Bodies, ts \in Timestamps }

CanonicalOf(x) == signature_data(x.method, x.path, x.query, x.body, x.timestamp)

\* The fields of x and y written one after the other, in the venue's order.
Concatenated(x) == x.method \o x.timestamp \o x.path \o x.query \o x.body

SameLengths(x, y) ==
    /\ Len(x.method) = Len(y.method)
    /\ Len(x.timestamp) = Len(y.timestamp)
    /\ Len(x.path) = Len(y.path)
    /\ Len(x.query) = Len(y.query)
    /\ Len(x.body) = Len(y.body)

\* C20 as stated: two requests that differ as 5-tuples never have the same
\* canonical string, and never the same signature under the same secret.
C20_TupleIdentified ==
    signIn.called =>
        \A y \in AllSignInputs :
            y # signIn =>
                /\ CanonicalOf(y) # CanonicalOf(signIn)
                /\ SignatureOf(y).val # signOut.val

\* C20 as amended: two requests that differ in a field and whose corresponding
\* fields have the same lengths never have the same canonical string nor the
\* same signature; in general two requests have the same signature exactly
\* when their fields, written one after the other, give the same string, as
\* happens when they differ only in where one field ends and the next begins.
C20_ConcatenationIdentified ==
    signIn.called =>
        \A y \in AllSignInputs :
            /\ y # signIn /\ SameLengths(y, signIn) =>
                  /\ CanonicalOf(y) # CanonicalOf(signIn)
                  /\ SignatureOf(y).val # signOut.val
            /\ SignatureOf(y).val = signOut.val <=>
                  Concatenated(y) = Concatenated(signIn)

\* C20 witness: a signed request for which another request of the same field
\* lengths exists (timestamps 17 and 12), and one that differs from it only in
\* the boundary between query and body.
C20_Witness ==
    /\ signIn.called
    /\ signIn.timestamp = <<"1", "7">>
    /\ signIn.query = <<"?", "a", "=", "1">>
    /\ signIn.body = <<>>
    /\ \E y \in AllSignInputs : y # signIn /\ SameLengths(y, signIn)
    /\ \E y \in AllSignInputs : y # signIn /\ Concatenated(y) = Concatenated(signIn)

\* The wire symbol without a trailing "USDT"; unchanged if it has none.
StripSuffix(s) ==
    IF Len(s) >= Len(USDT) /\ SubSeq(s, Len(s) - Len(USDT) + 1, Len(s)) = USDT
    THEN SubSeq(s, 1, Len(s) - Len(USDT))
    ELSE s

\* C15: the symbol handed to the callback is the wire symbol with a trailing
\* "USDT" removed and every other character unchanged and in place.
C15_SuffixStripped ==
    \A l \in Loops :
        LET r == loop[l] IN
        r.lastKind = "frame" /\ Len(r.lastCalls) = 1 =>
            r.lastCalls[1].s = StripSuffix(r.lastFrame.payload.s)

\* Frames the remote may send next: one that is not Text, one that is.
NextFrames ==
    { Frame("Binary", Ticker(BTCUSDT, <<"1", "2">>, <<"0", ".", "5">>,
                             <<"1", "2">>, <<"0", ".", "5">>)),
      Frame("Text", Garbage) }

\* C18: a frame whose opcode is not Text invokes no callback and leaves the
\* loop Streaming on its connection, whatever its payload; the loop leaves
\* Streaming only through a frame-read error; and after any frame it can read
\* the next.
C18_NonTextIgnored ==
    /\ [][\A l \in Loops :
            ReadsFrame(l) /\ loop'[l].lastFrame.opcode # "Text" =>
                /\ queue'[l] = queue[l]
                /\ delivered'[l] = delivered[l]
                /\ loop'[l].lastCalls = <<>>
                /\ loop'[l].pc = "Streaming"
                /\ loop'[l].conn = loop[l].conn
                /\ loop'[l].attempts = loop[l].attempts]_vars
    /\ [][\A l \in Loops :
            loop[l].pc = "Streaming" /\ loop'[l].pc # "Streaming" =>
                loop'[l].lastKind = "frame_err"]_vars
    /\ [](\A l \in Loops :
            loop[l].pc = "Streaming" /\ loop[l].recv < caps.frames =>
                \A frame \in NextFrames : ENABLED receive_frame(l, frame))

\* C18 witness: a binary frame carrying a complete ticker message was read;
\* nothing was dispatched and the loop is Streaming.
C18_Witness ==
    \E l \in Loops :
        /\ loop[l].lastKind = "frame"
        /\ loop[l].lastFrame.opcode = "Binary"
        /\ DecodesWithData(loop[l].lastFrame)
        /\ loop[l].pc = "Streaming"
        /\ loop[l].recv = 1
        /\ queue[l] = <<>>
        /\ delivered[l] = 0

\* ---------------------------------------------------------------- claim C14
\* A step in which loop l leaves the connection it had or the attempt it was
\* making and goes to sleep: connect returned Err or receive_frame returned Err.
FailureStep(l) ==
    /\ l <= Len(loop')
    /\ loop[l].pc # "Backoff"
    /\ loop'[l].pc = "Backoff"

\* C14: start returns to its caller right after spawning the background loop,
\* before any connection attempt, frame or backoff of that loop (the loop it
\* leaves behind is still at its very beginning), and it returns Ok; a connect
\* failure or a frame-read error, whenever it happens, changes neither what
\* start returned nor what the callback is given: it is handled inside the loop.
C14_StartReturnsAtOnce ==
    /\ [][Len(loop') > Len(loop) =>
            LET r == loop'[Len(loop')]
            IN  /\ r.pc = "Spawned"
                /\ r.ret = "Ok"
                /\ r.attempts = 0 /\ r.fails = 0 /\ r.conn = 0
                /\ r.recv = 0 /\ r.wait = 0 /\ r.slept = 0]_vars
    /\ [][\A l \in Loops :
            FailureStep(l) => /\ loop'[l].ret = "Ok"
                              /\ queue' = queue
                              /\ delivered' = delivered
                              /\ jsBusy' = jsBusy]_vars
    /\ [](\A l \in Loops : loop[l].ret = "Ok")

\* A loop whose connect failed, which then connected and lost that connection
\* to a frame-read error, while start had returned Ok and the callback was
\* never called.
C14_Witness ==
    \E l \in Loops :
        /\ loop[l].fails >= 1
        /\ loop[l].conn >= 1
        /\ loop[l].lastKind = "frame_err"
        /\ loop[l].ret = "Ok"
        /\ queue[l] = <<>>
        /\ delivered[l] = 0

\* ---------------------------------------------------------------- claim C19
\* What belongs to one loop alone: its position, its connection and its backoff.
OwnState(r) == <<r.pc, r.attempts, r.fails, r.conn, r.recv, r.wait, r.lastKind>>

\* C19: every start adds one loop of its own and leaves the earlier loops,
\* their queues and their deliveries as they were; a loop, once started, is
\* never stopped or replaced (it never goes back to its beginning and its
\* attempts are never forgotten); start never waits for an earlier loop; and a
\* step of one loop (a connect failure or a frame-read error in particular)
\* changes nothing of another loop's connection or backoff.
C19_IndependentLoops ==
    /\ [][Len(loop') # Len(loop) =>
            /\ Len(loop') = Len(loop) + 1
            /\ loop'[Len(loop')] = NewLoop
            /\ \A l \in Loops : /\ loop'[l] = loop[l]
                                /\ queue'[l] = queue[l]
                                /\ delivered'[l] = delivered[l]]_vars
    /\ [][\A l \in Loops :
            /\ l <= Len(loop')
            /\ loop'[l].attempts >= loop[l].attempts
            /\ loop'[l].conn >= loop[l].conn
            /\ (loop'[l].pc = "Spawned" => loop[l].pc = "Spawned")]_vars
    /\ [][\A l \in Loops :
            (l <= Len(loop') /\ OwnState(loop'[l]) # OwnState(loop[l])) =>
                \A m \in Loops \ {l} :
                    /\ m <= Len(loop')
                    /\ loop'[m] = loop[m]
                    /\ queue'[m] = queue[m]]_vars
    /\ [](Len(loop) < caps.starts => ENABLED start)

\* Two loops of the same listener at different places: the first sleeps after
\* a failure while the second, started later, holds a connection of its own.
C19_Witness ==
    /\ Len(loop) >= 2
    /\ loop[1].pc = "Backoff"
    /\ loop[1].lastKind \in {"connect_err", "frame_err"}
    /\ loop[2].pc = "Streaming"
    /\ loop[2].conn = 1

\* ---------------------------------------------------------------- claim C12
\* The values of the headers of a request that carry a given name.
HeaderValues(req, name) ==
    { req.headers[i][2] : i \in { k \in 1..Len(req.headers) : req.headers[k][1] = name } }

OpMethod(op) == IF op = "place_order" THEN POST ELSE GET

OpPath(op) ==
    IF op = "place_order" THEN ORDERS
    ELSE IF op = "get_wallet_balance" THEN BALANCES
    ELSE POSITIONS

\* C12: for every request sent by place_order, get_wallet_balance or
\* get_positions, what was signed is what is sent: the signed method and path
\* are the operation's and are the request's verb and the path of its URL, the
\* signed query is empty, the signed body is the body transmitted (empty for
\* the two GETs), the timestamp header is a decimal number and is the signed
\* timestamp, the signature header is the signature of exactly these values,
\* and api-key, timestamp, signature and Content-Type: application/json are
\* each present once.
C12_SentMatchesSigned ==
    \A c \in Calls : \A k \in 1..Len(calls[c].sent) :
        LET op  == calls[c].op
            x   == calls[c].signed
            req == calls[c].sent[k]
        IN  /\ x.called
            /\ x.method = OpMethod(op) /\ req.verb = x.method
            /\ x.path = OpPath(op) /\ req.url = DEFAULT_BASE_URL \o x.path
            /\ x.query = <<>>
            /\ x.body = req.body
            /\ op # "place_order" => req.body = <<>>
            /\ Len(x.timestamp) > 0 /\ AllDigits(x.timestamp, 1, Len(x.timestamp))
            /\ HeaderValues(req, "timestamp") = { x.timestamp }
            /\ HeaderValues(req, "signature") =
                 { hex_encode(HmacSha256(as_bytes(api_secret),
                       as_bytes(req.verb \o x.timestamp \o OpPath(op) \o req.body))) }
            /\ HeaderValues(req, "api-key") = { api_key }
            /\ HeaderValues(req, "Content-Type") = { APPLICATION_JSON }
            /\ Len(req.headers) = 4

\* An order with a two-member payload has been sent and is awaiting its
\* response.
C12_Witness ==
    \E c \in Calls :
        /\ calls[c].op = "place_order"
        /\ calls[c].pc = "Sending"
        /\ Len(calls[c].sent) = 1
        /\ calls[c].sent[1].body =
             <<"{", "\"", "a", "\"", ":", "1", ",", "\"", "b", "\"", ":",
               "n", "u", "l", "l", "}">>

\* ---------------------------------------------------------------- claim C13
\* The error kinds of the interface, as the caller sees them: the message
\* with which the call fails.
NetworkError(result) == result.kind = "Err" /\ result.msg = REQUEST_FAILED

DecodeError(result) == result.kind = "Err" /\ result.msg = PARSE_FAILED

\* C13: a REST call sends at most one request; when the transport fails or
\* times out the call ends with NetworkError, when the body received is not
\* JSON it ends with DecodeError, and no result is both.
C13_OneRequestTwoErrorKinds ==
    \A c \in Calls :
        /\ Len(calls[c].sent) <= 1
        /\ ~(NetworkError(calls[c].result) /\ DecodeError(calls[c].result))
        /\ calls[c].cause = "transport" => NetworkError(calls[c].result)
        /\ calls[c].cause = "decode" => DecodeError(calls[c].result)

\* ---------------------------------------------------------------- claim C16
\* C16: whenever the body of a response has been received in full and is JSON,
\* the call returns Ok with the value that body denotes, whatever the status of
\* the response (200, 400 or 500): no status makes the call fail.
C16_VenueErrorPassedThrough ==
    \A c \in Calls :
        (calls[c].pc = "Done" /\ calls[c].resp_status # 0
            /\ calls[c].cause # "transport" /\ json(calls[c].resp_body).ok) =>
            /\ calls[c].result = Ok(json(calls[c].resp_body).v)
            /\ json(to_string(calls[c].result.value)).v = calls[c].result.value

\* A response of status 500 whose body is the JSON text { "b":2,"a":1} has
\* been returned to the caller as the object {a: 1, b: 2}.
C16_Witness ==
    \E c \in Calls :
        /\ calls[c].pc = "Done"
        /\ calls[c].resp_status = 500
        /\ Len(calls[c].resp_body) > 7
        /\ calls[c].result.kind = "Ok"
        /\ calls[c].result.value =
             Obj(<< << <<"a">>, Num(1) >>, << <<"b">>, Num(2) >> >>)

\* ---------------------------------------------------------------- claim C17
\* C17: a call that has handed a request to send() had called sign before,
\* with its own arguments, and sign had returned Ok with the signature the
\* request carries; a call that ended with sign's error sent nothing.
C17_SentOnlyAfterSigned ==
    \A c \in Calls :
        /\ Len(calls[c].sent) > 0 =>
              /\ calls[c].signed.called
              /\ calls[c].signed.path = OpPath(calls[c].op)
              /\ calls[c].signature.ok
              /\ calls[c].signature =
                   sign(api_secret, calls[c].signed.method, calls[c].signed.path,
                        calls[c].signed.query, calls[c].signed.body,
                        calls[c].signed.timestamp)
              /\ HeaderValues(calls[c].sent[1], "signature") = { calls[c].signature.val }
        /\ (calls[c].result.kind = "Err" /\ calls[c].result.msg = INVALID_API_SECRET) =>
              calls[c].sent = <<>>

\* get_positions has signed its request and sent it.
C17_Witness ==
    \E c \in Calls :
        /\ calls[c].op = "get_positions"
        /\ calls[c].signature.ok
        /\ Len(calls[c].signature.val) > 0
        /\ Len(calls[c].sent) = 1

=============================================================================
